---- MODULE Spec2Model ----
(***************************************************************************)
(* The modular snake engine: GameEngine, GameModes, InputHandler and the   *)
(* window-level menu functions, as a state machine.  Every timer callback  *)
(* and every public operation is one action; callbacks never interleave    *)
(* (single-threaded event loop).  Coordinates are canvas pixels, as in the *)
(* source: multiples of gridSize.                                           *)
(***************************************************************************)
EXTENDS Integers, Sequences, FiniteSets, TLC

(* ------------------------------ bounds -------------------------------- *)
\* cells per side of the square canvas (canvasSize = BoardCells * gridSize)
BoardCells == 6
\* operations and tick bodies (start, restart, menu, pause, resume, select, tick)
\* executed in one behaviour of the general exploration
MaxSteps == 4
\* countdown callbacks executed in one behaviour of the general exploration
MaxSeconds == 1
\* operations and tick bodies executed in one behaviour of the time-trial exploration
TimeTrialSteps == 3
\* movement timeouts pending at once
MaxPending == 2
\* obstacles pushed by one generateObstacles call of the obstacle exploration
\* (the other iterations exhaust their attempts)
MaxObstacles == 1
\* sessions started in one behaviour of the obstacle exploration
ObstacleStarts == 1
\* seconds a countdown that was never cleared runs past zero
MaxOverrun == 1
\* cells per side of the board of the movement exploration
MoveCells == 7
\* operations and ticks in one behaviour of the movement, storage,
\* configuration and resize explorations
MoveSteps == 3
\* operations and ticks in one behaviour of the bonus exploration
BonusSteps == 2
\* seconds already elapsed when the bonus exploration begins
BonusElapsed == 1
\* target counts explored above the smallest one generateObstacles can sample
TargetSpread == 0
\* level buttons offered to selectLevel (the page has ten)
SelectableLevels == 2
\* operations and ticks in one behaviour of the collision exploration
CollideSteps == 2
\* operations and ticks in one behaviour of the crowded-board exploration
CrowdedSteps == 2
\* GameState methods called in one behaviour of the GameState exploration
StateCalls == 4
\* foods behind the largest score handed to a ScoreManager method called directly
MaxScoreFoods == 2
\* localStorage.setItem calls that throw in one behaviour of the score exploration
MaxWriteFailures == 1

(* ------------------------- program constants -------------------------- *)
gridSize == 20
TimeTrialStart == 30
FoodPoints == 10
BaseTimeBonus == 5
ExtraTimeBonus == 20
BonusEvery == 50
LevelEvery == 50
MaxLevel == 10
MinObstacleCount == 5
MaxObstacleCount == 12
MaxAttempts == 50

Levels == 1..SelectableLevels
Modes == {"classic", "timetrial", "obstacle"}
DirectionKeys == {"ArrowLeft", "ArrowUp", "ArrowRight", "ArrowDown"}
Keys == DirectionKeys \cup {"Space", "Escape", "Other"}
Directions == {"left", "up", "right", "down"}

VARIABLES
    gameState,          \* 'menu' | 'playing' | 'gameOver'
    snake,              \* sequence of cells, head first
    food,               \* a cell; NoFood for the constructor's {}
    score, level, selectedLevel, selectedGameMode,
    dx, dy,
    gameRunning, isPaused,
    changingDirection,  \* InputHandler.changingDirection
    timeRemaining,      \* JS value: undefined, NaN or a number
    timeInterval,       \* TRUE iff gameEngine.timeInterval holds a handle
    intervals,          \* countdown intervals active in the event loop
    obstacles,          \* JS value: undefined or an array of cells
    pending,            \* movement timeouts pending in the event loop
    canvasSize,
    stepsLeft, startsLeft, secondsLeft,  \* budgets of the exploration
    obstacleCap,        \* pushes explored per generateObstacles call
    sessionMode,        \* selectedGameMode as startGame read it ("none" before)
    lastDir, prevDir,   \* (dx, dy) used by the last tick of this session, and by the one before
    dirChanges,         \* changes of (dx, dy) made by intents since the last tick
    gen,                \* locals of a generateObstacles call explored step by step
    call,               \* a ScoreManager method called directly: arguments and result
    highScores,         \* ScoreManager.highScores, per mode
    localStorage,       \* the vaporSnakeHighScore_<mode> items: digits, <<>> for none
    highScoreText,      \* textContent of #high-score
    newHighScore,       \* TRUE iff #new-high-score is visible
    failuresLeft,       \* budget: localStorage.setItem calls that may still throw
    bestAtStart,        \* getHighScore(selectedGameMode) as startGame found it
    lastDelay,          \* delay of the timeout gameLoop set last
    stateObj            \* a GameState instance: current, history, saved game, last call

engineVars == <<gameState, snake, food, score, level, selectedLevel, selectedGameMode,
                dx, dy, gameRunning, isPaused, canvasSize>>
modeVars == <<timeRemaining, timeInterval, intervals, obstacles>>
budgetVars == <<stepsLeft, startsLeft, secondsLeft, obstacleCap>>
histVars == <<sessionMode, lastDir, prevDir, dirChanges, bestAtStart, lastDelay>>
scoreVars == <<highScores, localStorage, highScoreText, newHighScore, failuresLeft>>
vars == <<engineVars, modeVars, changingDirection, pending, budgetVars, histVars, gen, call, stateObj,
          scoreVars>>

(* ------------------------------ values -------------------------------- *)
Pos(x, y) == [x |-> x, y |-> y]
\* this.food = {} : x and y are undefined, equal to no coordinate
NoFood == Pos(-1, -1)
Undefined == [t |-> "undefined", v |-> 0]
NaN == [t |-> "NaN", v |-> 0]
Num(n) == [t |-> "number", v |-> n]
IsNum(t) == t.t = "number"
\* JS arithmetic on timeRemaining: undefined and NaN give NaN
JsAdd(t, n) == IF IsNum(t) THEN Num(t.v + n) ELSE NaN
\* t <= 0 in JS: false for undefined and NaN
JsLeqZero(t) == IsNum(t) /\ t.v <= 0
NoObstacles == [defined |-> FALSE, cells |-> <<>>]
Obs(s) == [defined |-> TRUE, cells |-> s]

SeqToSet(s) == {s[i] : i \in 1..Len(s)}
\* Math.floor(Math.random() * (canvasSize / gridSize)) * gridSize
RandomCoords(size) == {k * gridSize : k \in 0..((size \div gridSize) - 1)}
RandomCells(size) == {Pos(x, y) : x \in RandomCoords(size), y \in RandomCoords(size)}

SpawnSnake == <<Pos(100, 100), Pos(80, 100), Pos(60, 100)>>

(* ------------------------- GameEngine helpers ------------------------- *)
OnSnake(c, snk) == \E i \in 1..Len(snk) : snk[i].x = c.x /\ snk[i].y = c.y

\* GameModes.checkObstacleCollision; callers make sure the array exists
checkObstacleCollision(mode, obs, c) ==
    IF mode # "obstacle" THEN FALSE
    ELSE \E i \in 1..Len(obs.cells) : obs.cells[i].x = c.x /\ obs.cells[i].y = c.y

\* moveSnake, the border wrap of one coordinate (two consecutive ifs)
\* a wrap that re-enters one cell too far on the low side
WrapCoordToEdge(c, size) ==
    IF c < 0 THEN size ELSE IF c >= size THEN 0 ELSE c

WrapCoord(c, size) ==
    LET a == IF c < 0 THEN size - gridSize ELSE c
    IN  IF a >= size THEN 0 ELSE a

NextHead(h, ddx, ddy, size) == Pos(WrapCoord(h.x + ddx, size), WrapCoord(h.y + ddy, size))

\* a moveSnake that never pops the tail
moveSnakeKeepTail(snk, fd, ddx, ddy, size) == <<NextHead(snk[1], ddx, ddy, size)>> \o snk

\* moveSnake: unshift the new head, pop the tail unless the head is on the food
moveSnake(snk, fd, ddx, ddy, size) ==
    LET head == NextHead(snk[1], ddx, ddy, size)
    IN  IF head.x # fd.x \/ head.y # fd.y
        THEN <<head>> \o SubSeq(snk, 1, Len(snk) - 1)
        ELSE <<head>> \o snk

\* a loop over the body that stops one segment early
HitsBodyButLast(snk) ==
    \E i \in 2..(Len(snk) - 1) : snk[1].x = snk[i].x /\ snk[1].y = snk[i].y

\* checkCollisions, the loop over the body
HitsBody(snk) == \E i \in 2..Len(snk) : snk[1].x = snk[i].x /\ snk[1].y = snk[i].y

\* spawnFood: the cells the rejection loop can end on
spawnFood(snk, mode, obs, size) ==
    {c \in RandomCells(size) : ~OnSnake(c, snk) /\ ~checkObstacleCollision(mode, obs, c)}

\* checkFood: Math.min(selectedLevel + Math.floor(score / 50), 10)
NewLevel(sel, sc) ==
    LET n == sel + (sc \div LevelEvery) IN IF n < MaxLevel THEN n ELSE MaxLevel

(* -------------------------- GameModes helpers ------------------------- *)
AbsVal(n) == IF n < 0 THEN -n ELSE n

tooCloseToStart(c) ==
    AbsVal(c.x - 100) < gridSize * 3 /\ AbsVal(c.y - 100) < gridSize * 2

\* a test that forgets the area kept free around the start
validPositionAnywhere(c, placed, snk) ==
    /\ ~OnSnake(c, snk)
    /\ ~(\E i \in 1..Len(placed) : placed[i].x = c.x /\ placed[i].y = c.y)

\* generateObstacles, the test of one candidate against the array built so far
validPosition(c, placed, snk) ==
    /\ ~OnSnake(c, snk)
    /\ ~(\E i \in 1..Len(placed) : placed[i].x = c.x /\ placed[i].y = c.y)
    /\ ~tooCloseToStart(c)

\* arrays the for loop can have built after n iterations: an iteration pushes a
\* valid candidate, or gives up after 50 candidates that were all invalid
RECURSIVE ObstacleRuns(_, _, _)
ObstacleRuns(n, snk, size) ==
    IF n = 0 THEN {<<>>}
    ELSE LET prev == ObstacleRuns(n - 1, snk, size)
             skipped == {s \in prev : \E c \in RandomCells(size) : ~validPosition(c, s, snk)}
             pushed == {Append(p[1], p[2]) :
                          p \in {q \in prev \X RandomCells(size) : validPosition(q[2], q[1], snk)}}
         IN  skipped \cup pushed

\* generateObstacles: numObstacles is sampled in 5..12; at most cap iterations
\* of the exploration push, the others give up
generateObstacles(snk, size, cap) ==
    UNION {ObstacleRuns(IF numObstacles < cap THEN numObstacles ELSE cap, snk, size) :
             numObstacles \in MinObstacleCount..MaxObstacleCount}

\* addTimeBonus(points): 5 seconds, 20 more when points % 50 === 0
addTimeBonus(mode, t, points) ==
    IF mode # "timetrial" THEN t
    ELSE LET base == JsAdd(t, BaseTimeBonus)
         IN  IF points % BonusEvery = 0 THEN JsAdd(base, ExtraTimeBonus) ELSE base

\* clearTimer: the number of active intervals it leaves
clearTimer(handle, active) == IF handle THEN active - 1 ELSE active

(* ------------------------------ gameLoop ------------------------------ *)
\* this.speedSettings[level]: undefined for a level the table does not list
speedSettings(lv) ==
    IF lv \in 1..10
    THEN Num(<<200, 180, 160, 140, 120, 100, 80, 60, 40, 20>>[lv])
    ELSE Undefined

(* ---------------------------- ScoreManager ---------------------------- *)
\* a mode name the menu does not offer; highScores has no such key until a
\* score is saved under it, and getHighScore reads a missing key as 0
UnknownMode == "arcade"
ModeNames == Modes \cup {UnknownMode}

\* number.toString(): the decimal digits, most significant first
RECURSIVE toString(_)
toString(n) == IF n < 10 THEN <<n>> ELSE Append(toString(n \div 10), n % 10)

\* parseInt(saved, 10) of a string of decimal digits
RECURSIVE parseInt(_)
parseInt(str) ==
    IF Len(str) = 1 THEN str[1]
    ELSE 10 * parseInt(SubSeq(str, 1, Len(str) - 1)) + str[Len(str)]

\* localStorage with no item; getItem returns null, which reads as <<>>
EmptyStorage == [m \in ModeNames |-> <<>>]

\* loadHighScore: saved ? parseInt(saved, 10) : 0
loadHighScore(items, mode) == IF items[mode] = <<>> THEN 0 ELSE parseInt(items[mode])

\* the constructor of ScoreManager
LoadedScores(items) ==
    [m \in ModeNames |-> IF m \in Modes THEN loadHighScore(items, m) ELSE 0]

\* getHighScore: this.highScores[gameMode] || 0
getHighScore(hs, mode) == hs[mode]

\* the ScoreManager, the storage and the two elements of the page, as the
\* methods below pass them along; writes counts the setItem calls of a handler
ScoreState ==
    [highScores |-> highScores, localStorage |-> localStorage,
     highScoreText |-> highScoreText, newHighScore |-> newHighScore,
     returned |-> FALSE, writes |-> 0]

\* saveHighScore: assign, then setItem; a throw is caught and false returned
saveHighScore(st, mode, sc, fails) ==
    [st EXCEPT !.highScores[mode] = sc,
               !.localStorage[mode] = IF fails THEN @ ELSE toString(sc),
               !.returned = ~fails,
               !.writes = @ + 1]

\* an update that also takes a score equal to the best for a new one
updateIfHighScoreOrEqual(st, mode, sc, fails) ==
    IF sc >= getHighScore(st.highScores, mode)
    THEN [saveHighScore(st, mode, sc, fails) EXCEPT !.returned = TRUE]
    ELSE [st EXCEPT !.returned = FALSE]

\* updateIfHighScore
updateIfHighScore(st, mode, sc, fails) ==
    IF sc > getHighScore(st.highScores, mode)
    THEN [saveHighScore(st, mode, sc, fails) EXCEPT !.returned = TRUE]
    ELSE [st EXCEPT !.returned = FALSE]

\* GameEngine.updateScore: updateIfHighScore, then updateHighScoreDisplay
updateScore(st, mode, sc, fails) ==
    LET r == updateIfHighScore(st, mode, sc, fails)
    IN  IF r.returned
        THEN [r EXCEPT !.highScoreText = getHighScore(r.highScores, mode)]
        ELSE r

\* GameEngine.endGame, the comparison for a new high score
EndGameScore(st, mode, sc, fails) ==
    IF sc > getHighScore(st.highScores, mode)
    THEN LET r == saveHighScore(st, mode, sc, fails)
         IN  [r EXCEPT !.highScoreText = getHighScore(r.highScores, mode),
                       !.newHighScore = TRUE]
    ELSE [st EXCEPT !.newHighScore = FALSE]

\* what setItem can do in the handler being run: throw (TRUE) or store
WriteOutcomes == IF failuresLeft > 0 THEN BOOLEAN ELSE {FALSE}

\* the handler ends: its writes become the state; a throw uses up the budget
Commit(st, fails) ==
    /\ fails => st.writes > 0
    /\ highScores' = st.highScores
    /\ localStorage' = st.localStorage
    /\ highScoreText' = st.highScoreText
    /\ newHighScore' = st.newHighScore
    /\ failuresLeft' = IF fails THEN failuresLeft - 1 ELSE failuresLeft

(* ----------------------------- GameState ------------------------------ *)
\* GameState (ScoreManager.js) is a store of its own; the engine never calls it.
\* Numbers, arrays and objects are JS values [t, v]; mode and gameState are
\* strings, which the calls explored here never leave undefined.
maxHistorySize == 1000
JsNull == [t |-> "null", v |-> 0]
\* an array of n cells
Array(n) == [t |-> "array", v |-> n]
\* the food object
Object == [t |-> "object", v |-> 0]
\* a < n and a > n for a number n: null converts to 0, NaN compares false
JsLess(a, n) == CASE IsNum(a) -> a.v < n [] a = JsNull -> 0 < n [] OTHER -> FALSE
JsGreater(a, n) == CASE IsNum(a) -> a.v > n [] a = JsNull -> 0 > n [] OTHER -> FALSE

\* the properties of the state that update, validateState and reset read
getInitialState ==
    [mode |-> "classic", level |-> Num(1), selectedLevel |-> Num(1),
     gameState |-> "menu", score |-> Num(0), snake |-> Array(0),
     dx |-> Num(0), dy |-> Num(0), food |-> Object]

\* requiredProps, without the two string properties
RequiredValues == {"level", "score", "snake", "food", "dx", "dy"}

validateState(state) ==
    /\ \A prop \in RequiredValues : state[prop] # Undefined
    /\ ~(JsLess(state.level, 1) \/ JsGreater(state.level, MaxLevel))
    /\ ~JsLess(state.score, 0)
    /\ state.snake.t = "array"
    /\ state.mode \in Modes

\* JSON.parse(JSON.stringify(state)): NaN comes back as null; a property
\* holding undefined is dropped and reads as undefined again
JsonCopy(state) ==
    [k \in DOMAIN state |->
        IF k \in {"mode", "gameState"} THEN state[k]
        ELSE IF state[k] = NaN THEN JsNull ELSE state[k]]

\* { ...current, ...changes }
Spread(current, changes) ==
    [k \in DOMAIN current |-> IF k \in DOMAIN changes THEN changes[k] ELSE current[k]]

\* what the last call did: accepted, listeners notified, value returned (<<>> for
\* null, false or nothing) and the state that was current when it began
Did(op, accepted, notified, returned, before) ==
    [op |-> op, accepted |-> accepted, notified |-> notified, returned |-> returned,
     before |-> before]

NewGameState ==
    [current |-> getInitialState, history |-> <<>>, saved |-> <<>>,
     last |-> Did("none", FALSE, FALSE, <<>>, getInitialState)]

addToHistory(history, state) ==
    LET pushed == Append(history, JsonCopy(state))
    IN  IF Len(pushed) > maxHistorySize THEN Tail(pushed) ELSE pushed

update(o, changes, saveToHistory) ==
    LET kept == IF saveToHistory /\ o.current.gameState = "playing"
                THEN addToHistory(o.history, o.current)
                ELSE o.history
        newState == Spread(o.current, changes)
    IN  IF ~validateState(newState)
        THEN [o EXCEPT !.history = kept,
                       !.last = Did("update", FALSE, FALSE, <<o.current>>, o.current)]
        ELSE [o EXCEPT !.history = kept, !.current = newState,
                       !.last = Did("update", TRUE, TRUE, <<newState>>, o.current)]

undo(o) ==
    IF Len(o.history) = 0
    THEN [o EXCEPT !.last = Did("undo", FALSE, FALSE, <<>>, o.current)]
    ELSE LET previousState == o.history[Len(o.history)]
         IN  [o EXCEPT !.history = SubSeq(o.history, 1, Len(o.history) - 1),
                       !.current = previousState,
                       !.last = Did("undo", TRUE, TRUE, <<previousState>>, o.current)]

reset(o, keepMode) ==
    LET fresh == IF keepMode
                 THEN [getInitialState EXCEPT !.mode = o.current.mode,
                                              !.selectedLevel = o.current.selectedLevel]
                 ELSE getInitialState
    IN  [o EXCEPT !.current = fresh, !.history = <<>>,
                  !.last = Did("reset", TRUE, TRUE, <<>>, o.current)]

\* saveState: the item holds JSON.stringify of the current state
saveState(o) ==
    [o EXCEPT !.saved = <<JsonCopy(o.current)>>,
              !.last = Did("saveState", TRUE, FALSE, <<>>, o.current)]

loadState(o) ==
    IF o.saved = <<>> \/ ~validateState(o.saved[1])
    THEN [o EXCEPT !.last = Did("loadState", FALSE, FALSE, <<>>, o.current)]
    ELSE [o EXCEPT !.current = o.saved[1], !.history = <<>>,
                   !.last = Did("loadState", TRUE, TRUE, <<>>, o.current)]

(* ------------------------------- Init --------------------------------- *)
\* no generateObstacles call is being explored step by step
NoLoop == [numObstacles |-> 0, i |-> 0, attempts |-> 0, validPosition |-> FALSE]

\* no ScoreManager method is being called directly
NoCall == [op |-> "none", mode |-> "classic", score |-> 0, returned |-> FALSE,
           before |-> 0]

\* no timeout was set yet
NoDelay == [t |-> "none", v |-> 0]

\* new GameEngine() on a page whose storage holds the given items
ConstructedWith(cells, items) ==
    /\ gameState = "menu"
    /\ snake = <<>>
    /\ food = NoFood
    /\ score = 0 /\ level = 1 /\ selectedLevel = 1
    /\ selectedGameMode = "classic"
    /\ dx = 0 /\ dy = 0
    /\ gameRunning = FALSE /\ isPaused = FALSE
    /\ changingDirection = FALSE
    /\ timeRemaining = Undefined
    /\ timeInterval = FALSE /\ intervals = 0
    /\ obstacles = NoObstacles
    /\ pending = 0
    /\ canvasSize = cells * gridSize
    /\ gen = NoLoop
    /\ call = NoCall
    /\ stateObj = NewGameState
    /\ localStorage = items
    /\ highScores = LoadedScores(items)
    /\ highScoreText = 0
    /\ newHighScore = FALSE
    /\ sessionMode = "none"
    /\ lastDir = <<0, 0>> /\ prevDir = <<0, 0>>
    /\ dirChanges = 0
    /\ bestAtStart = 0
    /\ lastDelay = NoDelay

\* a first visit: nothing stored
ConstructedOn(cells) == ConstructedWith(cells, EmptyStorage)

Constructed == ConstructedOn(BoardCells)

(* ------------------------------ budgets ------------------------------- *)
\* a budget with this value is not counted down
Unlimited == 0 - 1
Spend(left) == IF left = Unlimited THEN Unlimited ELSE left - 1

UseStep ==
    /\ stepsLeft > 0 /\ stepsLeft' = stepsLeft - 1
    /\ UNCHANGED <<startsLeft, secondsLeft, obstacleCap, gen, call, stateObj>>
UseStart ==
    /\ stepsLeft > 0 /\ stepsLeft' = stepsLeft - 1
    /\ startsLeft # 0 /\ startsLeft' = Spend(startsLeft)
    /\ UNCHANGED <<secondsLeft, obstacleCap, gen, call, stateObj>>
UseSecond ==
    /\ secondsLeft # 0 /\ secondsLeft' = Spend(secondsLeft)
    /\ UNCHANGED <<stepsLeft, startsLeft, obstacleCap, gen, call, stateObj>>

\* the general exploration: every operation, no obstacle pushed, a short countdown
Init ==
    /\ Constructed
    /\ stepsLeft = MaxSteps
    /\ startsLeft = Unlimited
    /\ secondsLeft = MaxSeconds
    /\ obstacleCap = 0
    /\ failuresLeft = 0

(* ------------------------ session operations -------------------------- *)
\* GameEngine.startGame: reset, initMode, spawn snake and food, gameLoop()
startGame ==
    /\ pending < MaxPending
    /\ level' = selectedLevel
    /\ gameState' = "playing"
    /\ score' = 0
    /\ dx' = gridSize /\ dy' = 0
    /\ gameRunning' = TRUE /\ isPaused' = FALSE
    \* initMode(selectedGameMode); generateObstacles still sees the previous snake
    /\ CASE selectedGameMode = "timetrial" ->
              /\ timeRemaining' = Num(TimeTrialStart)
              /\ timeInterval' = TRUE
              /\ intervals' = clearTimer(timeInterval, intervals) + 1
              /\ obstacles' = obstacles
         [] selectedGameMode = "obstacle" ->
              /\ obstacles' \in {Obs(s) : s \in generateObstacles(snake, canvasSize, obstacleCap)}
              /\ timeInterval' = FALSE
              /\ intervals' = clearTimer(timeInterval, intervals)
              /\ timeRemaining' = timeRemaining
         [] OTHER ->
              /\ timeInterval' = FALSE
              /\ intervals' = clearTimer(timeInterval, intervals)
              /\ UNCHANGED <<timeRemaining, obstacles>>
    /\ snake' = SpawnSnake
    /\ food' \in spawnFood(SpawnSnake, selectedGameMode, obstacles', canvasSize)
    \* gameLoop(): gameRunning and not paused, so a timeout is set
    /\ pending' = pending + 1
    /\ lastDelay' = speedSettings(selectedLevel)
    \* updateScore() with the score just reset, then updateModeSpecificUI()
    /\ \E fails \in WriteOutcomes :
         LET r == updateScore(ScoreState, selectedGameMode, 0, fails) IN
         Commit([r EXCEPT !.highScoreText = getHighScore(r.highScores, selectedGameMode)],
                fails)
    /\ sessionMode' = selectedGameMode
    /\ bestAtStart' = getHighScore(highScores, selectedGameMode)
    /\ lastDir' = <<0, 0>> /\ prevDir' = <<0, 0>>
    /\ UNCHANGED <<selectedLevel, selectedGameMode, canvasSize, changingDirection,
                   dirChanges>>

\* window.startGame
StartGame == UseStart /\ startGame

\* window.restartGame -> GameEngine.restartGame: hide the modals, startGame()
RestartGame == UseStart /\ startGame

\* GameEngine.pauseGame
pauseGame ==
    /\ gameState = "playing"
    /\ isPaused' = TRUE

\* a pause that also empties the obstacle list
PauseGameClearing ==
    /\ UseStep
    /\ pauseGame
    /\ obstacles' = Obs(<<>>)
    /\ UNCHANGED <<gameState, snake, food, score, level, selectedLevel, selectedGameMode,
                   dx, dy, gameRunning, canvasSize, timeRemaining, timeInterval, intervals,
                   changingDirection, pending, histVars, scoreVars>>

PauseGame ==
    /\ UseStep
    /\ pauseGame
    /\ UNCHANGED <<gameState, snake, food, score, level, selectedLevel, selectedGameMode,
                   dx, dy, gameRunning, canvasSize, modeVars, changingDirection, pending,
                   histVars, scoreVars>>

\* GameEngine.resumeGame: clear the flag and call gameLoop(), which sets a timeout
ResumeGame ==
    /\ UseStep
    /\ gameState = "playing"
    /\ isPaused' = FALSE
    /\ IF gameRunning
       THEN /\ pending < MaxPending /\ pending' = pending + 1
            /\ lastDelay' = speedSettings(level)
       ELSE UNCHANGED <<pending, lastDelay>>
    /\ UNCHANGED <<gameState, snake, food, score, level, selectedLevel, selectedGameMode,
                   dx, dy, gameRunning, canvasSize, modeVars, changingDirection,
                   sessionMode, lastDir, prevDir, dirChanges, bestAtStart, scoreVars>>

\* window.showMainMenu
ShowMainMenu ==
    /\ UseStep
    /\ gameRunning' = FALSE
    /\ gameState' = "menu"
    /\ IF selectedGameMode = "timetrial"
       THEN timeInterval' = FALSE /\ intervals' = clearTimer(timeInterval, intervals)
       ELSE UNCHANGED <<timeInterval, intervals>>
    /\ UNCHANGED <<snake, food, score, level, selectedLevel, selectedGameMode, dx, dy,
                   isPaused, canvasSize, timeRemaining, obstacles, changingDirection,
                   pending, histVars, scoreVars>>

\* GameEngine.selectGameMode
SelectGameMode ==
    /\ UseStep
    /\ \E mode \in Modes : mode # selectedGameMode /\ selectedGameMode' = mode
    /\ UNCHANGED <<gameState, snake, food, score, level, selectedLevel, dx, dy,
                   gameRunning, isPaused, canvasSize, modeVars, changingDirection,
                   pending, histVars, scoreVars>>

\* GameEngine.selectLevel, called by the level buttons with data-level 1, 2, ...
SelectLevel ==
    /\ UseStep
    /\ \E lv \in Levels : lv # selectedLevel /\ selectedLevel' = lv
    /\ UNCHANGED <<gameState, snake, food, score, level, selectedGameMode, dx, dy,
                   gameRunning, isPaused, canvasSize, modeVars, changingDirection,
                   pending, histVars, scoreVars>>

(* ------------------------------ inputs -------------------------------- *)
\* a key handler that turns without looking at the current axis
KeyDirectionAnyAxis(key, cdx, cdy) ==
    CASE key = "ArrowLeft"  -> <<-gridSize, 0>>
      [] key = "ArrowUp"    -> <<0, -gridSize>>
      [] key = "ArrowRight" -> <<gridSize, 0>>
      [] key = "ArrowDown"  -> <<0, gridSize>>
      [] OTHER -> <<cdx, cdy>>

\* handleKeyPress, the four ifs on event.code: the (dx, dy) they leave
KeyDirection(key, cdx, cdy) ==
    CASE key = "ArrowLeft"  /\ cdx = 0 -> <<-gridSize, 0>>
      [] key = "ArrowUp"    /\ cdy = 0 -> <<0, -gridSize>>
      [] key = "ArrowRight" /\ cdx = 0 -> <<gridSize, 0>>
      [] key = "ArrowDown"  /\ cdy = 0 -> <<0, gridSize>>
      [] OTHER -> <<cdx, cdy>>

\* handleMobileDirection, the switch on the button's direction
MobileDirection(direction, cdx, cdy) ==
    CASE direction = "left"  /\ cdx = 0 -> <<-gridSize, 0>>
      [] direction = "up"    /\ cdy = 0 -> <<0, -gridSize>>
      [] direction = "right" /\ cdx = 0 -> <<gridSize, 0>>
      [] direction = "down"  /\ cdy = 0 -> <<0, gridSize>>
      [] OTHER -> <<cdx, cdy>>

\* a guard that forgets the changingDirection flag
AcceptsInputNoFlag == gameState = "playing"

\* the guard both handlers start with
AcceptsInput == gameState = "playing" /\ ~changingDirection

\* a handleKeyPress whose pause keys leave the direction flag alone
KeyPressPauseKeepsSlot(key) ==
    /\ AcceptsInput
    /\ changingDirection' = IF key \in {"Space", "Escape"} THEN changingDirection ELSE TRUE
    /\ LET d == KeyDirection(key, dx, dy) IN
       /\ dx' = d[1] /\ dy' = d[2]
       /\ isPaused' = IF key \in {"Space", "Escape"} THEN TRUE ELSE isPaused
       /\ dirChanges' = IF d # <<dx, dy>> THEN dirChanges + 1 ELSE dirChanges

\* handleKeyPress for one event.code, past the guard
KeyPress(key) ==
    /\ AcceptsInput
    /\ changingDirection' = TRUE
    /\ LET d == KeyDirection(key, dx, dy) IN
       /\ dx' = d[1] /\ dy' = d[2]
       \* pauseGame(): gameState is 'playing' here
       /\ isPaused' = IF key \in {"Space", "Escape"} THEN TRUE ELSE isPaused
       /\ dirChanges' = IF d # <<dx, dy>> THEN dirChanges + 1 ELSE dirChanges

\* InputHandler.handleKeyPress (keydown listener)
HandleKeyPress ==
    /\ \E key \in Keys : KeyPress(key)
    /\ UNCHANGED <<gameState, snake, food, score, level, selectedLevel, selectedGameMode,
                   gameRunning, canvasSize, modeVars, pending, budgetVars,
                   sessionMode, lastDir, prevDir, bestAtStart, lastDelay, gen, call, stateObj,
                   scoreVars>>

\* touchstart / click on a direction button -> InputHandler.handleMobileDirection
HandleMobileDirection ==
    /\ gameState = "playing"
    /\ AcceptsInput
    /\ changingDirection' = TRUE
    /\ \E direction \in Directions :
         LET d == MobileDirection(direction, dx, dy) IN
         /\ dx' = d[1] /\ dy' = d[2]
         /\ dirChanges' = IF d # <<dx, dy>> THEN dirChanges + 1 ELSE dirChanges
    /\ UNCHANGED <<gameState, snake, food, score, level, selectedLevel, selectedGameMode,
                   gameRunning, isPaused, canvasSize, modeVars, pending, budgetVars,
                   sessionMode, lastDir, prevDir, bestAtStart, lastDelay, gen, call, stateObj,
                   scoreVars>>

(* --------------------------- timer callbacks -------------------------- *)
\* endGame: what it leaves in timeInterval and in the number of active intervals
EndGameInterval(mode, handle) == IF mode = "timetrial" THEN FALSE ELSE handle
EndGameIntervals(mode, handle, active) ==
    IF mode = "timetrial" THEN clearTimer(handle, active) ELSE active

\* the setTimeout callback of gameLoop: resetDirectionFlag, moveSnake,
\* checkCollisions, checkFood, and gameLoop() again while gameRunning
Tick ==
    /\ pending > 0
    /\ UseStep
    /\ LET moved == moveSnake(snake, food, dx, dy, canvasSize)
           head == moved[1]
           selfHit == HitsBody(moved)
           \* obstacles.some on an array that was never created: TypeError
           noArray == selectedGameMode = "obstacle" /\ ~obstacles.defined
           throwsInCollisions == ~selfHit /\ noArray
           obstacleHit == /\ ~selfHit /\ ~noArray
                          /\ checkObstacleCollision(selectedGameMode, obstacles, head)
           ended == selfHit \/ obstacleHit
           ate == ~throwsInCollisions /\ head.x = food.x /\ head.y = food.y
           throwsInFood == ate /\ noArray
           thrown == throwsInCollisions \/ throwsInFood
           running == gameRunning /\ ~ended
       IN
       /\ changingDirection' = FALSE
       /\ snake' = moved
       /\ gameRunning' = running
       /\ gameState' = IF ended THEN "gameOver" ELSE gameState
       /\ timeInterval' = IF ended THEN EndGameInterval(selectedGameMode, timeInterval)
                          ELSE timeInterval
       /\ intervals' = IF ended
                       THEN EndGameIntervals(selectedGameMode, timeInterval, intervals)
                       ELSE intervals
       /\ score' = IF ate THEN score + FoodPoints ELSE score
       /\ timeRemaining' = IF ate
                           THEN addTimeBonus(selectedGameMode, timeRemaining, FoodPoints)
                           ELSE timeRemaining
       /\ IF ate /\ ~throwsInFood
          THEN food' \in spawnFood(moved, selectedGameMode, obstacles, canvasSize)
          ELSE food' = food
       /\ level' = IF ate /\ ~throwsInFood
                      /\ NewLevel(selectedLevel, score + FoodPoints) > level
                   THEN NewLevel(selectedLevel, score + FoodPoints)
                   ELSE level
       /\ pending' = IF ~thrown /\ running /\ ~isPaused THEN pending ELSE pending - 1
       /\ lastDelay' = IF ~thrown /\ running /\ ~isPaused
                       THEN speedSettings(level')
                       ELSE lastDelay
       \* endGame() inside checkCollisions, then updateScore() inside checkFood
       /\ \E fails \in WriteOutcomes :
            LET afterEnd == IF ended
                            THEN EndGameScore(ScoreState, selectedGameMode, score, fails)
                            ELSE ScoreState
            IN  Commit(IF ate /\ ~throwsInFood
                       THEN updateScore(afterEnd, selectedGameMode, score + FoodPoints, fails)
                       ELSE afterEnd,
                       fails)
    /\ lastDir' = <<dx, dy>> /\ prevDir' = lastDir
    /\ dirChanges' = 0
    /\ UNCHANGED <<selectedLevel, selectedGameMode, dx, dy, isPaused, canvasSize,
                   obstacles, sessionMode, bestAtStart>>

\* a countdown callback that forgets the decrement
ElapseNot(t) == t

\* this.gameEngine.timeRemaining--
Elapse(t) == JsAdd(t, -1)

\* the setInterval callback of startTimer
Countdown ==
    /\ intervals > 0
    /\ UseSecond
    /\ LET t == Elapse(timeRemaining)
           ends == JsLeqZero(t)
       IN
       /\ IsNum(t) => t.v >= -MaxOverrun
       /\ timeRemaining' = t
       /\ gameRunning' = IF ends THEN FALSE ELSE gameRunning
       /\ gameState' = IF ends THEN "gameOver" ELSE gameState
       /\ timeInterval' = IF ends THEN EndGameInterval(selectedGameMode, timeInterval)
                          ELSE timeInterval
       /\ intervals' = IF ends
                       THEN EndGameIntervals(selectedGameMode, timeInterval, intervals)
                       ELSE intervals
       /\ \E fails \in WriteOutcomes :
            Commit(IF ends
                   THEN EndGameScore(ScoreState, selectedGameMode, score, fails)
                   ELSE ScoreState,
                   fails)
    /\ UNCHANGED <<snake, food, score, level, selectedLevel, selectedGameMode, dx, dy,
                   isPaused, canvasSize, obstacles, changingDirection, pending, histVars>>

Next ==
    \/ StartGame
    \/ RestartGame
    \/ PauseGame
    \/ ResumeGame
    \/ ShowMainMenu
    \/ SelectGameMode
    \/ SelectLevel
    \/ HandleKeyPress
    \/ HandleMobileDirection
    \/ Tick
    \/ Countdown

Spec == Init /\ [][Next]_vars

(* ------------------------ other explorations -------------------------- *)
\* the obstacle exploration: generateObstacles pushes up to MaxObstacles cells
InitObstacle ==
    /\ Constructed
    /\ stepsLeft = MaxSteps
    /\ startsLeft = ObstacleStarts
    /\ secondsLeft = MaxSeconds
    /\ obstacleCap = MaxObstacles
    /\ failuresLeft = 0

SpecObstacle == InitObstacle /\ [][Next]_vars

\* the time-trial exploration: the countdown runs as long as the code lets it
InitTimeTrial ==
    /\ Constructed
    /\ stepsLeft = TimeTrialSteps
    /\ startsLeft = Unlimited
    /\ secondsLeft = Unlimited
    /\ obstacleCap = 0
    /\ failuresLeft = 0

SpecTimeTrial == InitTimeTrial /\ [][Next]_vars

\* the event loop keeps firing an active interval
SpecTimeTrialFair == SpecTimeTrial /\ WF_vars(Countdown)

\* the movement exploration: a board one cell wider, a few operations
InitMove ==
    /\ ConstructedOn(MoveCells)
    /\ stepsLeft = MoveSteps
    /\ startsLeft = Unlimited
    /\ secondsLeft = MaxSeconds
    /\ obstacleCap = 0
    /\ failuresLeft = 0

SpecMove == InitMove /\ [][Next]_vars

\* foods a session can eat before the score reaches a multiple of BonusEvery
FoodsBeforeBonus == (BonusEvery \div FoodPoints) - 1

\* the spawned snake after one turn up and four foods eaten on the way up
ClimbedSnake ==
    <<Pos(100, 20), Pos(100, 40), Pos(100, 60), Pos(100, 80)>> \o SpawnSnake

\* the bonus exploration begins in the middle of a time-trial session: level 1
\* selected, the snake turned up after startGame and ate k foods, one per tick
InitBonus ==
    \E k \in 1..FoodsBeforeBonus :
        /\ gameState = "playing"
        /\ snake = SubSeq(ClimbedSnake, FoodsBeforeBonus + 1 - k, Len(ClimbedSnake))
        /\ food \in {c \in RandomCells(BoardCells * gridSize) : ~OnSnake(c, snake)}
        /\ score = k * FoodPoints /\ level = 1 /\ selectedLevel = 1
        /\ selectedGameMode = "timetrial"
        /\ dx = 0 /\ dy = -gridSize
        /\ gameRunning = TRUE /\ isPaused = FALSE
        /\ changingDirection = FALSE
        /\ timeRemaining \in {Num(TimeTrialStart + k * BaseTimeBonus - e) : e \in 0..BonusElapsed}
        /\ timeInterval = TRUE /\ intervals = 1
        /\ obstacles = NoObstacles
        /\ pending = 1
        /\ canvasSize = BoardCells * gridSize
        /\ sessionMode = "timetrial"
        /\ lastDir = <<0, -gridSize>>
        /\ prevDir = IF k = 1 THEN <<gridSize, 0>> ELSE <<0, -gridSize>>
        /\ dirChanges = 0
        /\ stepsLeft = BonusSteps
        /\ startsLeft = Unlimited
        /\ secondsLeft = MaxSeconds
        /\ obstacleCap = 0
        /\ failuresLeft = 0
        /\ gen = NoLoop
        /\ call = NoCall
        /\ stateObj = NewGameState
        /\ localStorage = [EmptyStorage EXCEPT !["timetrial"] = toString(score)]
        /\ highScores = LoadedScores(localStorage)
        /\ highScoreText = score
        /\ newHighScore = FALSE
        /\ bestAtStart = 0
        /\ lastDelay = speedSettings(level)

SpecBonus == InitBonus /\ [][Next]_vars

(* ------------------- generateObstacles, step by step ------------------ *)
\* candidates the exploration lets Math.random produce: the top row of the
\* board and one cell of the area kept free around the start
DrawnCells(size) == {c \in RandomCells(size) : c.y = 0} \cup {Pos(100, 100)}

\* snakes generateObstacles can find: none yet, the spawned one, or one left
\* on the top row by an earlier session
StaleSnakes == {<<>>, SpawnSnake, <<Pos(100, 0), Pos(100, 20), Pos(100, 40)>>}

\* startGame has reset its fields and generateObstacles has sampled
\* numObstacles and emptied the array
InitGenerate ==
    /\ gameState = "playing"
    /\ snake \in StaleSnakes
    /\ food = NoFood
    /\ score = 0 /\ level = 1 /\ selectedLevel = 1
    /\ selectedGameMode = "obstacle"
    /\ dx = gridSize /\ dy = 0
    /\ gameRunning = TRUE /\ isPaused = FALSE
    /\ changingDirection = FALSE
    /\ timeRemaining = Undefined
    /\ timeInterval = FALSE /\ intervals = 0
    /\ obstacles = Obs(<<>>)
    /\ pending = 0
    /\ canvasSize = BoardCells * gridSize
    /\ sessionMode = "none"
    /\ lastDir = <<0, 0>> /\ prevDir = <<0, 0>>
    /\ dirChanges = 0
    /\ stepsLeft = 0 /\ startsLeft = 0 /\ secondsLeft = 0 /\ obstacleCap = 0
    /\ failuresLeft = 0
    /\ call = NoCall
    /\ stateObj = NewGameState
    /\ localStorage = EmptyStorage
    /\ highScores = LoadedScores(localStorage)
    /\ highScoreText = 0
    /\ newHighScore = FALSE
    /\ bestAtStart = 0
    /\ lastDelay = NoDelay
    /\ \E n \in MinObstacleCount..(MinObstacleCount + TargetSpread) :
         /\ n <= MaxObstacleCount
         /\ gen = [numObstacles |-> n, i |-> 0, attempts |-> 0, validPosition |-> FALSE]

\* a loop body that pushes but forgets to set validPosition
GenAttemptKeepsTrying ==
    /\ gen.i < gen.numObstacles
    /\ ~gen.validPosition /\ gen.attempts < MaxAttempts
    /\ \E c \in DrawnCells(canvasSize) :
         obstacles' = IF validPosition(c, obstacles.cells, snake)
                      THEN Obs(Append(obstacles.cells, c))
                      ELSE obstacles
    /\ gen' = [gen EXCEPT !.attempts = @ + 1]
    /\ UNCHANGED <<engineVars, timeRemaining, timeInterval, intervals,
                   changingDirection, pending, budgetVars, histVars, call, stateObj, scoreVars>>

\* one pass of the while loop: draw a candidate, push it if it is valid
GenAttempt ==
    /\ gen.i < gen.numObstacles
    /\ ~gen.validPosition /\ gen.attempts < MaxAttempts
    /\ \E c \in DrawnCells(canvasSize) :
         LET ok == validPosition(c, obstacles.cells, snake) IN
         /\ obstacles' = IF ok THEN Obs(Append(obstacles.cells, c)) ELSE obstacles
         /\ gen' = [gen EXCEPT !.attempts = @ + 1, !.validPosition = ok]
    /\ UNCHANGED <<engineVars, timeRemaining, timeInterval, intervals,
                   changingDirection, pending, budgetVars, histVars, call, stateObj, scoreVars>>

\* the while loop has ended: the for loop moves to the next obstacle
GenNextObstacle ==
    /\ gen.i < gen.numObstacles
    /\ gen.validPosition \/ gen.attempts >= MaxAttempts
    /\ gen' = [gen EXCEPT !.i = @ + 1, !.attempts = 0, !.validPosition = FALSE]
    /\ UNCHANGED <<engineVars, modeVars, changingDirection, pending, budgetVars,
                   histVars, call, stateObj, scoreVars>>

NextGenerate == GenAttempt \/ GenNextObstacle

SpecGenerate == InitGenerate /\ [][NextGenerate]_vars

\* the storage exploration: a first visit on which setItem can throw (storage
\* full or disabled)
InitStorage ==
    /\ Constructed
    /\ stepsLeft = MoveSteps
    /\ startsLeft = Unlimited
    /\ secondsLeft = MaxSeconds
    /\ obstacleCap = 0
    /\ failuresLeft = MaxWriteFailures

SpecStorage == InitStorage /\ [][Next]_vars

(* --------------------- values no button carries ----------------------- *)
\* levels next to the range the speed table lists
OutsideLevels == {0, MaxLevel + 1}

\* GameEngine.selectLevel with a data-level outside 1..10
SelectLevelOutside ==
    /\ UseStep
    /\ \E lv \in OutsideLevels : lv # selectedLevel /\ selectedLevel' = lv
    /\ UNCHANGED <<gameState, snake, food, score, level, selectedGameMode, dx, dy,
                   gameRunning, isPaused, canvasSize, modeVars, changingDirection,
                   pending, histVars, scoreVars>>

\* GameEngine.selectGameMode with a data-mode that names no mode
SelectUnknownMode ==
    /\ UseStep
    /\ selectedGameMode # UnknownMode /\ selectedGameMode' = UnknownMode
    /\ UNCHANGED <<gameState, snake, food, score, level, selectedLevel, dx, dy,
                   gameRunning, isPaused, canvasSize, modeVars, changingDirection,
                   pending, histVars, scoreVars>>

InitConfig ==
    /\ Constructed
    /\ stepsLeft = MoveSteps
    /\ startsLeft = Unlimited
    /\ secondsLeft = MaxSeconds
    /\ obstacleCap = 0
    /\ failuresLeft = 0

NextConfig == Next \/ SelectLevelOutside \/ SelectUnknownMode

SpecConfig == InitConfig /\ [][NextConfig]_vars

\* the level-up exploration begins in a classic session started on a first
\* visit after selectLevel was given a level outside 1..10: the snake turned
\* up and ate four foods, one per tick
InitLevelUp ==
    /\ gameState = "playing"
    /\ snake = ClimbedSnake
    /\ food \in {c \in RandomCells(BoardCells * gridSize) : ~OnSnake(c, snake)}
    /\ score = FoodsBeforeBonus * FoodPoints
    /\ selectedLevel \in OutsideLevels /\ level = selectedLevel
    /\ selectedGameMode = "classic"
    /\ dx = 0 /\ dy = -gridSize
    /\ gameRunning = TRUE /\ isPaused = FALSE
    /\ changingDirection = FALSE
    /\ timeRemaining = Undefined
    /\ timeInterval = FALSE /\ intervals = 0
    /\ obstacles = NoObstacles
    /\ pending = 1
    /\ canvasSize = BoardCells * gridSize
    /\ sessionMode = "classic"
    /\ lastDir = <<0, -gridSize>> /\ prevDir = <<0, -gridSize>>
    /\ dirChanges = 0
    /\ stepsLeft = BonusSteps
    /\ startsLeft = Unlimited
    /\ secondsLeft = MaxSeconds
    /\ obstacleCap = 0
    /\ failuresLeft = 0
    /\ gen = NoLoop
    /\ call = NoCall
    /\ stateObj = NewGameState
    /\ localStorage = [EmptyStorage EXCEPT !["classic"] = toString(score)]
    /\ highScores = LoadedScores(localStorage)
    /\ highScoreText = score
    /\ newHighScore = FALSE
    /\ bestAtStart = 0
    /\ lastDelay = speedSettings(level)

SpecLevelUp == InitLevelUp /\ [][NextConfig]_vars

(* ----------------------------- collisions ---------------------------- *)
\* the spawned snake after a turn up with a food eaten on (100, 80), a turn
\* left, and a second food eaten on (80, 80)
CoiledSnake ==
    <<Pos(80, 80), Pos(100, 80), Pos(100, 100), Pos(80, 100), Pos(60, 100)>>

\* the array an obstacle session left on the engine: one cell above the
\* coiled head, outside the area kept free around the start
StoredObstacles == Obs(<<Pos(80, 60)>>)

\* food cells the collision exploration begins with: in front of the coiled
\* head, on the stored obstacle, and away from both
CoiledFoods == {Pos(60, 80), Pos(80, 60), Pos(0, 0)}

\* the collision exploration begins in a classic or obstacle session, on a
\* first visit apart from an obstacle session that scored nothing: the snake
\* is coiled next to the stored obstacle, having eaten one food (the second
\* cell was empty) or two; the food lies where spawnFood could put it after
\* the last food eaten and the snake has not been since
InitCollide ==
    \E k \in 1..2, mode \in {"classic", "obstacle"} :
        /\ gameState = "playing"
        /\ snake = SubSeq(CoiledSnake, 1, k + 3)
        /\ selectedGameMode = mode
        /\ obstacles = StoredObstacles
        /\ canvasSize = BoardCells * gridSize
        /\ food \in {c \in spawnFood(IF k = 2 THEN CoiledSnake
                                      ELSE SubSeq(CoiledSnake, 2, 5),
                                      mode, obstacles, canvasSize) :
                        c \in CoiledFoods /\ ~OnSnake(c, snake)}
        /\ score = k * FoodPoints /\ level = 1 /\ selectedLevel = 1
        /\ dx = -gridSize /\ dy = 0
        /\ gameRunning = TRUE /\ isPaused = FALSE
        /\ changingDirection = FALSE
        /\ timeRemaining = Undefined
        /\ timeInterval = FALSE /\ intervals = 0
        /\ pending = 1
        /\ sessionMode = mode
        /\ lastDir = <<-gridSize, 0>> /\ prevDir = <<0, -gridSize>>
        /\ dirChanges = 0
        /\ stepsLeft = CollideSteps
        /\ startsLeft = Unlimited
        /\ secondsLeft = MaxSeconds
        /\ obstacleCap = 0
        /\ failuresLeft = 0
        /\ gen = NoLoop
        /\ call = NoCall
        /\ stateObj = NewGameState
        /\ localStorage = [EmptyStorage EXCEPT ![mode] = toString(score)]
        /\ highScores = LoadedScores(localStorage)
        /\ highScoreText = score
        /\ newHighScore = FALSE
        /\ bestAtStart = 0
        /\ lastDelay = speedSettings(level)

SpecCollide == InitCollide /\ [][Next]_vars

(* --------------------------- crowded board --------------------------- *)
\* the i-th cell of the path that sweeps the board row by row, left to right
\* on even rows and right to left on odd ones
SweepCell(i) ==
    LET r == (i - 1) \div BoardCells
        c == (i - 1) % BoardCells
    IN  Pos((IF r % 2 = 0 THEN c ELSE BoardCells - 1 - c) * gridSize, r * gridSize)

\* a snake that has grown along the sweep until `free` cells are left, head
\* first: the head is the last cell it reached
SweepSnake(free) ==
    LET n == BoardCells * BoardCells - free IN [i \in 1..n |-> SweepCell(n + 1 - i)]

\* late in a long classic session: the snake covers all cells but two and
\* moves along the last row towards them; the food is on one of the two
InitCrowded ==
    /\ gameState = "playing"
    /\ snake = SweepSnake(2)
    /\ selectedGameMode = "classic"
    /\ obstacles = NoObstacles
    /\ canvasSize = BoardCells * gridSize
    /\ food \in spawnFood(snake, selectedGameMode, obstacles, canvasSize)
    /\ score = (Len(snake) - Len(SpawnSnake)) * FoodPoints
    /\ selectedLevel = 1 /\ level = NewLevel(selectedLevel, score)
    /\ dx = snake[1].x - snake[2].x /\ dy = snake[1].y - snake[2].y
    /\ gameRunning = TRUE /\ isPaused = FALSE
    /\ changingDirection = FALSE
    /\ timeRemaining = Undefined
    /\ timeInterval = FALSE /\ intervals = 0
    /\ pending = 1
    /\ sessionMode = "classic"
    /\ lastDir = <<dx, dy>> /\ prevDir = <<dx, dy>>
    /\ dirChanges = 0
    /\ stepsLeft = CrowdedSteps
    /\ startsLeft = Unlimited
    /\ secondsLeft = MaxSeconds
    /\ obstacleCap = 0
    /\ failuresLeft = 0
    /\ gen = NoLoop
    /\ call = NoCall
    /\ stateObj = NewGameState
    /\ localStorage = [EmptyStorage EXCEPT !["classic"] = toString(score)]
    /\ highScores = LoadedScores(localStorage)
    /\ highScoreText = score
    /\ newHighScore = FALSE
    /\ bestAtStart = 0
    /\ lastDelay = speedSettings(level)

SpecCrowded == InitCrowded /\ [][Next]_vars

(* ------------------------------ resize ------------------------------- *)
\* sizes setCanvasSize can compute: 600 on a wide window, a multiple of
\* gridSize in 320..500 on a narrow one; here the board of the movement
\* exploration stands for the wide window and the smaller one for the narrow
CanvasSizes == {MoveCells * gridSize, BoardCells * gridSize}

\* the resize listener: setCanvasSize() for the new window size
SetCanvasSize ==
    /\ \E size \in CanvasSizes : size # canvasSize /\ canvasSize' = size
    /\ UNCHANGED <<gameState, snake, food, score, level, selectedLevel, selectedGameMode,
                   dx, dy, gameRunning, isPaused, modeVars, changingDirection, pending,
                   budgetVars, histVars, gen, call, stateObj, scoreVars>>

\* the page is loaded in a wide window
InitResize ==
    /\ ConstructedOn(MoveCells)
    /\ stepsLeft = MoveSteps
    /\ startsLeft = Unlimited
    /\ secondsLeft = MaxSeconds
    /\ obstacleCap = 0
    /\ failuresLeft = 0

NextResize == Next \/ SetCanvasSize

SpecResize == InitResize /\ [][NextResize]_vars

(* ------------------- ScoreManager, called directly -------------------- *)
\* scores a session can reach with a few foods
ScoreInputs == {k * FoodPoints : k \in 0..MaxScoreFoods}

\* what earlier visits can have left in the storage: nothing, or a best
StoredItems ==
    {items \in [ModeNames -> {<<>>} \cup {toString(sc) : sc \in ScoreInputs}] :
        items[UnknownMode] = <<>>}

\* the page is loaded and no session was started
InitScore ==
    /\ \E items \in StoredItems : ConstructedWith(BoardCells, items)
    /\ stepsLeft = 0 /\ startsLeft = 0 /\ secondsLeft = 0 /\ obstacleCap = 0
    /\ failuresLeft = MaxWriteFailures

\* scoreManager.updateIfHighScore(mode, score)
CallUpdateIfHighScore ==
    /\ \E mode \in Modes, sc \in ScoreInputs, fails \in WriteOutcomes :
         LET r == updateIfHighScore(ScoreState, mode, sc, fails) IN
         /\ Commit(r, fails)
         /\ call' = [op |-> "updateIfHighScore", mode |-> mode, score |-> sc,
                     returned |-> r.returned, before |-> getHighScore(highScores, mode)]
    /\ UNCHANGED <<engineVars, modeVars, changingDirection, pending, budgetVars,
                   histVars, gen, stateObj>>

\* scoreManager.saveHighScore(mode, score)
CallSaveHighScore ==
    /\ \E mode \in Modes, sc \in ScoreInputs, fails \in WriteOutcomes :
         LET r == saveHighScore(ScoreState, mode, sc, fails) IN
         /\ Commit(r, fails)
         /\ call' = [op |-> "saveHighScore", mode |-> mode, score |-> sc,
                     returned |-> r.returned, before |-> getHighScore(highScores, mode)]
    /\ UNCHANGED <<engineVars, modeVars, changingDirection, pending, budgetVars,
                   histVars, gen, stateObj>>

NextScore == CallUpdateIfHighScore \/ CallSaveHighScore

SpecScore == InitScore /\ [][NextScore]_vars

(* --------------------- GameState, called directly --------------------- *)
\* the changes handed to update: values the examples use, values validateState
\* is there to reject, and values of the wrong kind
StateChanges ==
    {[level |-> v] : v \in {Num(5), Num(99), NaN}}
        \cup {[score |-> v] : v \in {Num(10), Num(-10)}}
        \cup {[gameState |-> g] : g \in {"playing", "gameOver"}}
        \cup {[mode |-> m] : m \in {"timetrial", UnknownMode}}
        \cup {[snake |-> v] : v \in {Array(1), JsNull}}
        \cup {[dx |-> Undefined]}

UseStateCall ==
    /\ stepsLeft > 0 /\ stepsLeft' = stepsLeft - 1
    /\ UNCHANGED <<startsLeft, secondsLeft, obstacleCap, gen, call, engineVars, modeVars,
                   changingDirection, pending, histVars, scoreVars>>

Update ==
    /\ UseStateCall
    /\ \E changes \in StateChanges, saveToHistory \in BOOLEAN :
         stateObj' = update(stateObj, changes, saveToHistory)

Undo == UseStateCall /\ stateObj' = undo(stateObj)

Reset == UseStateCall /\ \E keepMode \in BOOLEAN : stateObj' = reset(stateObj, keepMode)

SaveState == UseStateCall /\ stateObj' = saveState(stateObj)

LoadState == UseStateCall /\ stateObj' = loadState(stateObj)

InitGameState ==
    /\ Constructed
    /\ stepsLeft = StateCalls /\ startsLeft = 0 /\ secondsLeft = 0 /\ obstacleCap = 0
    /\ failuresLeft = 0

NextGameState == Update \/ Undo \/ Reset \/ SaveState \/ LoadState

SpecGameState == InitGameState /\ [][NextGameState]_vars

(* ----------------------------- properties ----------------------------- *)
FoodOnObstacle == \E i \in 1..Len(obstacles.cells) : obstacles.cells[i] = food

\* C1: once a session has started, the food is on no snake segment and, in a
\* session started in obstacle mode, on no obstacle cell.
C1_FoodClear ==
    snake # <<>> =>
        /\ ~OnSnake(food, snake)
        /\ sessionMode = "obstacle" => ~FoodOnObstacle

Reverse(d) == <<-d[1], -d[2]>>

\* C2: within a session no tick uses the exact reverse of the direction the
\* previous tick used, and the head never sits on the cell two segments behind
\* it (the cell the segment at index 1 had before the tick).
C2_NoReverse ==
    /\ prevDir # <<0, 0>> => lastDir # Reverse(prevDir)
    /\ Len(snake) >= 3 => snake[1] # snake[3]

\* two ticks of one session, the second one after an accepted turn
C2_Turned == prevDir # <<0, 0>> /\ lastDir # prevDir

\* C3: intents change (dx, dy) at most once between two tick executions, and
\* only a tick clears InputHandler.changingDirection.
C3_OneChangePerTick ==
    [][/\ dirChanges' <= 1
       /\ (changingDirection /\ ~changingDirection') => Tick]_vars

\* a turn was accepted after a tick and the slot is now closed to further intents
C3_SlotUsed == dirChanges = 1 /\ changingDirection /\ lastDir # <<0, 0>>

\* C4: at most one movement timeout is pending.
C4_OnePendingTick == pending <= 1

\* C5: a tick body runs only while gameState is 'playing'.
C5_TickOnlyWhilePlaying == [][Tick => gameState = "playing"]_vars

\* C6: while the session stays paused no tick body runs and snake, food, score
\* and level keep their values.
C6_PauseFreezes ==
    [][(gameState = "playing" /\ isPaused /\ isPaused') =>
          (~Tick /\ UNCHANGED <<snake, food, score, level>>)]_vars

TimeDecreases ==
    IsNum(timeRemaining) /\ IsNum(timeRemaining') /\ timeRemaining'.v < timeRemaining.v

\* C7: in a time-trial session timeRemaining does not decrease while the
\* session is paused, so the countdown cannot end a paused session.
C7_PauseStopsClock ==
    [][(gameState = "playing" /\ isPaused /\ isPaused' /\ sessionMode = "timetrial") =>
          (~TimeDecreases /\ ~(Countdown /\ gameState' = "gameOver"))]_vars

\* C8: in a time-trial session timeRemaining is never below 0, and it is at
\* least 1 while gameState is 'playing'.
C8_ClockInRange ==
    sessionMode = "timetrial" =>
        /\ IsNum(timeRemaining) /\ timeRemaining.v >= 0
        /\ gameState = "playing" => timeRemaining.v >= 1

TimeTrialPlaying == gameState = "playing" /\ sessionMode = "timetrial"

\* C9: with the countdown interval firing (weak fairness), a playing
\* time-trial session eventually stops being one: it reaches gameOver unless
\* it is sent to the menu or replaced by a session of another mode.
C9_EventuallyOver == TimeTrialPlaying ~> ~TimeTrialPlaying

\* a time-trial session that ate food and was then ended by the countdown
C9_TimedOut ==
    /\ sessionMode = "timetrial" /\ gameState = "gameOver"
    /\ score > 0 /\ timeRemaining = Num(0)

\* the abstract state of the state machine
Abstract(gs, paused) ==
    IF gs = "playing" THEN (IF paused THEN "paused" ELSE "playing") ELSE gs

Edges ==
    {<<"menu", "playing">>, <<"playing", "paused">>, <<"paused", "playing">>,
     <<"playing", "gameOver">>, <<"gameOver", "menu">>, <<"gameOver", "playing">>}

\* C10: every change of the abstract state follows one of the six edges.
C10_OnlyListedEdges ==
    [][LET a == Abstract(gameState, isPaused)
           b == Abstract(gameState', isPaused')
       IN  a # b => <<a, b>> \in Edges]_vars

\* the score-to-level mapping: min(selectedLevel + floor(score / 50), 10)
LevelCap(sel, sc) ==
    IF sel + (sc \div LevelEvery) < MaxLevel THEN sel + (sc \div LevelEvery) ELSE MaxLevel

\* C11: level only goes down when a new session starts, and while a session
\* is in progress it never exceeds min(selectedLevel + floor(score / 50), 10).
C11_LevelMonotoneCapped ==
    [][/\ level' < level => (StartGame \/ RestartGame)
       /\ gameState' = "playing" => level' <= LevelCap(selectedLevel', score')]_vars

\* the next head of the tick about to run, wrapped by modular arithmetic
ExpectedHead ==
    Pos((snake[1].x + dx + canvasSize) % canvasSize,
        (snake[1].y + dy + canvasSize) % canvasSize)

\* C12: a tick whose next head is not on the food puts the wrapped next head
\* in front of the old snake without its last segment and leaves score, level
\* and food alone.
C12_PlainStep ==
    [][(Tick /\ ExpectedHead # food) =>
          /\ snake' = <<ExpectedHead>> \o SubSeq(snake, 1, Len(snake) - 1)
          /\ UNCHANGED <<score, level, food>>]_vars

\* the example: the spawned snake moved one cell to the right without eating
C12_Example ==
    /\ snake = <<Pos(120, 100), Pos(100, 100), Pos(80, 100)>>
    /\ score = 0 /\ lastDir = <<gridSize, 0>>

\* C13: a tick whose next head is on the food keeps the tail (length + 1),
\* adds exactly 10 to the score and replaces the food, all on that tick; a
\* tick whose next head is elsewhere does none of the three.
C13_EatStep ==
    [][Tick =>
          IF ExpectedHead = food
          THEN /\ Len(snake') = Len(snake) + 1
               /\ score' = score + FoodPoints
               /\ food' # food
          ELSE /\ Len(snake') = Len(snake)
               /\ score' = score
               /\ food' = food]_vars

\* what the wrap must make of a raw coordinate c on a board of the given size
WrapsTo(c, size, w) ==
    /\ (0 <= c /\ c < size) => w = c
    /\ c = -gridSize => w = size - gridSize
    /\ c = size => w = 0

\* C14: the head a tick computes is wrapped per axis: a coordinate inside the
\* board is kept, -gridSize becomes canvasSize - gridSize, canvasSize becomes 0.
C14_WrapPerAxis ==
    [][Tick =>
          /\ WrapsTo(snake[1].x + dx, canvasSize, snake'[1].x)
          /\ WrapsTo(snake[1].y + dy, canvasSize, snake'[1].y)]_vars

\* the head left the board on the right, turned, and left it again on the left
C14_WrappedBothWays ==
    /\ Len(snake) >= 3
    /\ lastDir = <<-gridSize, 0>> /\ prevDir[1] = 0
    /\ snake[1].x = canvasSize - gridSize /\ snake[2].x = 0
    /\ snake[3] = Pos(0, 100)

\* the tick ran checkFood's branch for an eaten food
FoodEaten == Tick /\ score' = score + FoodPoints

\* C15: a session started in time-trial mode begins with timeRemaining = 30;
\* each food eaten in a time-trial session adds exactly 5 seconds (the bonus
\* at a multiple of 50 points is C16's), and food eaten in a session of another
\* mode leaves timeRemaining alone.
C15_BaseBonus ==
    [][/\ ((StartGame \/ RestartGame) /\ selectedGameMode = "timetrial")
            => timeRemaining' = Num(TimeTrialStart)
       /\ (FoodEaten /\ sessionMode = "timetrial" /\ score' % BonusEvery # 0)
            => timeRemaining' = JsAdd(timeRemaining, BaseTimeBonus)
       /\ (FoodEaten /\ sessionMode # "timetrial")
            => timeRemaining' = timeRemaining]_vars

\* C16: in a time-trial session a food that brings the score of the session
\* to a multiple of 50 adds 20 seconds on top of the 5-second base bonus.
C16_ExtraBonus ==
    [][(FoodEaten /\ sessionMode = "timetrial" /\ score' % BonusEvery = 0)
          => timeRemaining' = JsAdd(timeRemaining, BaseTimeBonus + ExtraTimeBonus)]_vars

\* C17: whatever is selected meanwhile, a session in progress follows the
\* rules of the mode it was started in: obstacles end it only in an obstacle
\* session, new food avoids the obstacles of an obstacle session, eaten food
\* adds time only in a time-trial session, and the end of a time-trial
\* session leaves no countdown interval active.
C17_SessionKeepsMode ==
    [][gameState = "playing" =>
          /\ Tick =>
                /\ (gameState' = "gameOver") <=>
                      \/ HitsBody(snake')
                      \/ sessionMode = "obstacle" /\ snake'[1] \in SeqToSet(obstacles.cells)
                /\ (food' # food /\ sessionMode = "obstacle")
                      => food' \notin SeqToSet(obstacles.cells)
                /\ (FoodEaten /\ score' % BonusEvery # 0) =>
                      timeRemaining' = IF sessionMode = "timetrial"
                                       THEN JsAdd(timeRemaining, BaseTimeBonus)
                                       ELSE timeRemaining
          /\ (gameState' = "gameOver" /\ sessionMode = "timetrial") => intervals' = 0]_vars

\* C18: at most one countdown interval is active, and none once the session
\* is over or the player is back in the menu.
C18_OneCountdown ==
    /\ intervals <= 1
    /\ gameState \in {"menu", "gameOver"} => intervals = 0

\* C19: generateObstacles samples a target in 5..12, makes at most 50
\* attempts per obstacle, and never holds more obstacles than the target.
C19_CountWithinTarget ==
    /\ gen.numObstacles \in MinObstacleCount..MaxObstacleCount
    /\ gen.attempts <= MaxAttempts
    /\ Len(obstacles.cells) <= gen.numObstacles

\* the loop is over: some obstacles were placed, fewer than the target
C19_FewerThanTarget ==
    /\ gen.i = gen.numObstacles
    /\ 0 < Len(obstacles.cells) /\ Len(obstacles.cells) < gen.numObstacles

\* the exclusion zone of the starting area: |x - 100| < 3 cells, |y - 100| < 2 cells
InExclusionZone(c) ==
    /\ c.x - 100 < 3 * gridSize /\ 100 - c.x < 3 * gridSize
    /\ c.y - 100 < 2 * gridSize /\ 100 - c.y < 2 * gridSize

\* C20: the obstacle cells are pairwise distinct, none lies in the exclusion
\* zone around (100, 100) and none is a cell of the spawned snake, whatever
\* snake an earlier session left behind.
C20_ObstaclesWellPlaced ==
    LET cells == obstacles.cells IN
    /\ \A i, j \in 1..Len(cells) : i # j => cells[i] # cells[j]
    /\ \A i \in 1..Len(cells) :
          /\ ~InExclusionZone(cells[i])
          /\ cells[i] \notin SeqToSet(SpawnSnake)

\* a generateObstacles call that found an earlier snake has finished with
\* several obstacles after at least one candidate was refused
C20_PlacedAfterSession ==
    /\ gen.numObstacles > 0 /\ gen.i = gen.numObstacles
    /\ snake # <<>>
    /\ Len(obstacles.cells) >= 2 /\ Len(obstacles.cells) < gen.numObstacles

\* C21: a session that ends with a score above the best its mode had when the
\* session started leaves the new-high-score indicator visible.
C21_NewBestReported ==
    [][(gameState = "playing" /\ gameState' = "gameOver" /\ score > bestAtStart)
          => newHighScore']_vars

Larger(a, b) == IF a > b THEN a ELSE b

\* C22: updateIfHighScore(mode, score) returns true exactly when score is
\* above the best of that mode; afterwards that best is the larger of the two,
\* the other bests are unchanged, and so no best decreases.
C22_UpdateKeepsMaximum ==
    [][CallUpdateIfHighScore =>
          LET m == call'.mode IN
          /\ call'.returned <=> (call'.score > getHighScore(highScores, m))
          /\ getHighScore(highScores', m) = Larger(getHighScore(highScores, m), call'.score)
          /\ \A o \in Modes \ {m} : getHighScore(highScores', o) = getHighScore(highScores, o)
          /\ \A o \in Modes : getHighScore(highScores', o) >= getHighScore(highScores, o)]_vars

\* a best that was already above 0 has been raised while another mode keeps
\* a lower best of its own
C22_BestRaised ==
    /\ call.op = "updateIfHighScore" /\ call.returned
    /\ call.before > 0 /\ highScores[call.mode] = call.score
    /\ \E o \in Modes \ {call.mode} : highScores[o] > 0 /\ highScores[o] < call.score

\* C23: when localStorage.setItem throws, the handler still completes, a
\* direct saveHighScore call returns false, and neither the best reported for
\* any mode nor the best-score display changes.
C23_FailedWriteKeepsBest ==
    [][failuresLeft' < failuresLeft =>
          /\ call'.op = "saveHighScore" => ~call'.returned
          /\ \A m \in ModeNames : getHighScore(highScores', m) = getHighScore(highScores, m)
          /\ highScoreText' = highScoreText]_vars

InvalidSelection == selectedLevel \notin 1..MaxLevel \/ selectedGameMode \notin Modes

\* C24: startGame starts nothing while the selected level is outside 1..10
\* or the selected mode is none of the three, and level is always in 1..10.
C24_StartNeedsValidConfig ==
    [][/\ (InvalidSelection /\ (StartGame \/ RestartGame))
            => UNCHANGED <<gameState, pending, level>>
       /\ level' \in 1..MaxLevel]_vars

PauseKeyPressed == KeyPress("Space") \/ KeyPress("Escape")

\* C25: Space or Escape pressed while the game is playing and not paused
\* pauses it, and pressed while the game is paused resumes it.
C25_PauseKeyToggles ==
    [][(HandleKeyPress /\ PauseKeyPressed) => (isPaused' = ~isPaused)]_vars

\* the step calls gameLoop() and gameLoop sets a timeout
Scheduled ==
    \/ StartGame \/ RestartGame
    \/ ResumeGame /\ pending' > pending
    \/ Tick /\ pending' = pending

\* setTimeout waits 0 ms when the delay is undefined
EffectiveDelay(d) == IF IsNum(d) THEN d.v ELSE 0

\* C26: every timeout gameLoop sets has the delay speedSettings[level] of the
\* level at that moment; the table falls strictly from 200 at level 1 to 20
\* at level 10; within a session the delay never increases.
C26_DelayFollowsLevel ==
    /\ speedSettings(1) = Num(200) /\ speedSettings(MaxLevel) = Num(20)
    /\ \A a, b \in 1..MaxLevel : a < b => speedSettings(a).v > speedSettings(b).v
    /\ [][/\ Scheduled => lastDelay' = speedSettings(level')
          /\ (Scheduled /\ ~(StartGame \/ RestartGame))
               => EffectiveDelay(lastDelay') <= EffectiveDelay(lastDelay)]_vars

\* a cell of the board as it is now
OnBoard(c) ==
    /\ c.x % gridSize = 0 /\ 0 <= c.x /\ c.x < canvasSize
    /\ c.y % gridSize = 0 /\ 0 <= c.y /\ c.y < canvasSize

\* C27: during a session every snake segment, the food and every obstacle
\* is a cell of the board of the current size.
C27_EverythingOnBoard ==
    gameState = "playing" =>
        /\ \A i \in 1..Len(snake) : OnBoard(snake[i])
        /\ OnBoard(food)
        /\ \A i \in 1..Len(obstacles.cells) : OnBoard(obstacles.cells[i])

\* the tick about to run ends the session on an obstacle
EntersObstacle ==
    /\ selectedGameMode = "obstacle"
    /\ \E i \in 1..Len(obstacles.cells) : obstacles.cells[i] = ExpectedHead

\* C28: on a tick of a session that does not eat, a head that moves onto a
\* segment other than the last ends the game, and a head that moves onto the
\* cell the last segment is leaving does not (unless an obstacle does).
C28_SelfCollisionAfterMove ==
    [][(Tick /\ gameState = "playing" /\ ExpectedHead # food) =>
          /\ OnSnake(ExpectedHead, SubSeq(snake, 1, Len(snake) - 1))
                => gameState' = "gameOver"
          /\ (/\ ExpectedHead = snake[Len(snake)]
              /\ ~OnSnake(ExpectedHead, SubSeq(snake, 1, Len(snake) - 1))
              /\ ~EntersObstacle)
                => gameState' = "playing"]_vars

\* the coiled snake of four segments has turned down onto the cell its tail
\* was leaving, and the session goes on
C28_ChasedTail ==
    /\ gameState = "playing" /\ Len(snake) = 4
    /\ snake[1] = Pos(80, 100) /\ snake[2] = Pos(80, 80)
    /\ lastDir = <<0, gridSize>> /\ prevDir = <<-gridSize, 0>>

\* the tick has moved the head onto the body or, in obstacle mode, onto an
\* obstacle
CollisionDetected ==
    /\ Tick
    /\ \/ HitsBody(snake')
       \/ /\ selectedGameMode = "obstacle" /\ obstacles.defined
          /\ \E i \in 1..Len(obstacles.cells) : obstacles.cells[i] = snake'[1]

\* C29: a tick of a session on which checkCollisions detects a collision
\* ends the session, leaves score, level and food as they were, and sets no
\* new timeout.
C29_CollisionEndsTick ==
    [][(CollisionDetected /\ gameState = "playing") =>
          /\ gameState' = "gameOver"
          /\ UNCHANGED <<score, level, food>>
          /\ pending' = pending - 1]_vars

\* the tick about to run moves the head onto a cell of the stored obstacle list
OnStoredObstacle ==
    /\ obstacles.defined
    /\ \E i \in 1..Len(obstacles.cells) : obstacles.cells[i] = ExpectedHead

\* C30: a tick of a session started in classic or time-trial mode whose head
\* moves onto a stored obstacle cell, and not onto the body, leaves the session
\* playing; a tick of a session started in obstacle mode whose head moves onto
\* an obstacle cell ends it.
C30_ObstaclesFatalInObstacleMode ==
    [][(Tick /\ gameState = "playing" /\ OnStoredObstacle) =>
          /\ (sessionMode \in {"classic", "timetrial"} /\ ~HitsBody(snake'))
                => gameState' = "playing"
          /\ sessionMode = "obstacle" => gameState' = "gameOver"]_vars

\* this step is a startGame: the snake is respawned, the score reset and a
\* timeout set for the session of the selected mode
SessionStarted ==
    /\ gameState' = "playing" /\ score' = 0 /\ snake' = SpawnSnake
    /\ pending' = pending + 1
    /\ sessionMode' = selectedGameMode

\* C31: the obstacle list changes only in a startGame of obstacle mode; ticks,
\* inputs, pause, resume, menu, selections and the countdown leave it as it is.
C31_ObstaclesFixedInSession ==
    [][obstacles' # obstacles =>
          (SessionStarted /\ selectedGameMode = "obstacle" /\ obstacles'.defined)]_vars

\* an obstacle session with a non-empty obstacle list in which a tick has run
C31_ObstacleSessionTicked ==
    /\ sessionMode = "obstacle" /\ selectedGameMode = "obstacle"
    /\ obstacles.defined /\ Len(obstacles.cells) > 0
    /\ lastDir # <<0, 0>> /\ stepsLeft = 0

\* C32: between the ticks of a session the score is a multiple of 10 and the
\* snake has three segments plus one for every 10 points.
C32_LengthFollowsScore ==
    gameState = "playing" =>
        /\ score % FoodPoints = 0
        /\ Len(snake) = Len(SpawnSnake) + score \div FoodPoints

\* C33: between the ticks of a session no two segments of the snake share a
\* cell, and in a session of obstacle mode no segment is on an obstacle.
C33_SnakeClearOfItselfAndObstacles ==
    gameState = "playing" =>
        /\ \A i, j \in 1..Len(snake) : snake[i] = snake[j] => i = j
        /\ (sessionMode = "obstacle" /\ obstacles.defined) =>
              \A i \in 1..Len(obstacles.cells) : ~OnSnake(obstacles.cells[i], snake)

C35_FoodHasFreeCell ==
    (/\ pending > 0 /\ Len(snake) > 0 /\ ExpectedHead = food
     /\ (selectedGameMode = "obstacle" => obstacles.defined)) =>
        spawnFood(moveSnake(snake, food, dx, dy, canvasSize), selectedGameMode,
                  obstacles, canvasSize) # {}

\* C36: whatever update, undo, reset and loadState calls were made, the
\* current state has a level in 1..10, a score of at least 0, one of the three
\* modes, every required property, and passes validateState.
C36_CurrentStateValid ==
    LET c == stateObj.current IN
    /\ validateState(c)
    /\ IsNum(c.level) /\ c.level.v \in 1..MaxLevel
    /\ IsNum(c.score) /\ c.score.v >= 0

\* C37: an update that validateState rejects leaves current and the history
\* as they were, notifies no listener and returns the state that was current.
C37_RejectedUpdateChangesNothing ==
    [][(Update /\ ~stateObj'.last.accepted) =>
          /\ stateObj'.current = stateObj.current
          /\ stateObj'.history = stateObj.history
          /\ ~stateObj'.last.notified
          /\ stateObj'.last.returned = <<stateObj.current>>]_vars

\* C38: an undo that follows an accepted update makes current equal to the
\* state that was current just before that update.
C38_UndoRevertsUpdate ==
    [][(Undo /\ stateObj.last.op = "update" /\ stateObj.last.accepted) =>
          stateObj'.current = stateObj.last.before]_vars

====
